---- MODULE Spec2Model ----
(***************************************************************************)
(* A model of the Gab TV add-on (resources/lib): the thumbnail cache of    *)
(* webscraper.download_fanart, the listing scrapes, the stream URL         *)
(* composition and the orchestration of gab.GabTV.                         *)
(*                                                                         *)
(* Strings are sequences of tokens; a file name is the token sequence      *)
(* <<"gabtv_">> \o key \o <<".">> \o extension, so that os.path.splitext   *)
(* and str.split are computed, not assumed.  The cache directory is a flat *)
(* directory of regular files: a function from file name to modification   *)
(* time.  Modification times come from a clock that advances on every      *)
(* write, so two files never share one.                                    *)
(***************************************************************************)
EXTENDS Integers, Sequences, FiniteSets, TLC

\* Bounds of the model.
MaxCalls == 3
MaxCache == 3
MaxPrior == 2
MaxFill == 4
MaxItems == 2
MaxCookies == 2
MaxHeaders == 2

None == <<"None">>
NoElement == <<"no_element">>
Raise == <<"raise">>
\* no page fetched yet; no lists: the scrape loop has not run, or it raised
NoPage == [raised |-> FALSE, status |-> 0]
NoLists == [ok |-> FALSE]

(***************************************************************************)
(* Strings and file names                                                  *)
(***************************************************************************)
PREFIX == <<"gabtv_">>
DOT == "."
FALLBACK_EXT == <<"apng">>

RECURSIVE LastIndexOf(_, _, _)
\* str.rfind: the greatest index i <= n with s[i] = c, or 0
LastIndexOf(s, c, n) ==
    IF n = 0 THEN 0
    ELSE IF s[n] = c THEN n ELSE LastIndexOf(s, c, n - 1)

RECURSIVE AllDots(_, _)
\* whether s[1..n] consists of dots only (splitext's leading-dots rule)
AllDots(s, n) ==
    IF n = 0 THEN TRUE ELSE s[n] = DOT /\ AllDots(s, n - 1)

\* os.path.splitext(s)[0] for a name without directory separators
SplitextRoot(s) ==
    LET d == LastIndexOf(s, DOT, Len(s))
    IN IF d = 0 \/ AllDots(s, d) THEN s ELSE SubSeq(s, 1, d - 1)

\* 'gabtv_' + key + "." + extension
FileName(key, ext) == PREFIX \o key \o <<DOT>> \o ext

\* url.split('/')[-1]: a URL is the sequence of its slash-delimited segments
UrlKey(url) == url[Len(url)]

\* s[0:end] of Python, for any integer end
PySlice0(s, end) ==
    LET n == Len(s)
        e == IF end < 0 THEN (IF n + end < 0 THEN 0 ELSE n + end)
             ELSE (IF end > n THEN n ELSE end)
    IN SubSeq(s, 1, e)

Range(s) == {s[i] : i \in DOMAIN s}

\* a str.split that drops empty segments
RECURSIVE SplitSkipsEmpty(_, _)
SplitSkipsEmpty(s, sep) ==
    IF s = <<>> THEN <<>>
    ELSE LET rest == SplitSkipsEmpty(Tail(s), sep)
         IN IF Head(s) = sep THEN rest
            ELSE IF Len(s) > 1 /\ s[2] # sep
                 THEN << <<Head(s)>> \o rest[1] >> \o Tail(rest)
                 ELSE << <<Head(s)>> >> \o rest

\* s.split(sep): the segments between the separators, empty ones included
RECURSIVE Split(_, _)
Split(s, sep) ==
    IF s = <<>> THEN << <<>> >>
    ELSE LET rest == Split(Tail(s), sep)
         IN IF Head(s) = sep THEN << <<>> >> \o rest
            ELSE << <<Head(s)>> \o rest[1] >> \o Tail(rest)

(***************************************************************************)
(* The stream URL (webscraper.kodi_header, retrieve_video_url).  Here a     *)
(* string is the sequence of its characters.                               *)
(***************************************************************************)
COOKIE_EQ == <<"C", "o", "o", "k", "i", "e", "=">>
VIEWKEY_PARAM == <<"?", "v", "i", "e", "w", "K", "e", "y", "=">>
R_PARAM == <<"&", "r", "=">>
RESOLUTION == <<"1", "0", "8", "0", "p">>

\* the characters urllib's quote never escapes: letters, digits, "_", ".", "-"
AlwaysSafe ==
    {"a", "b", "c", "d", "e", "h", "i", "k", "n", "o", "p", "r", "s", "t", "v",
     "w", "y", "C", "K", "1", "2", "3", "0", "8", "_", ".", "-"}

\* "%XX" of a character that is escaped
PercentCode(c) ==
    CASE c = "=" -> <<"%", "3", "D">>
      [] c = ";" -> <<"%", "3", "B">>
      [] c = " " -> <<"%", "2", "0">>
      [] c = "&" -> <<"%", "2", "6">>
      [] c = "/" -> <<"%", "2", "F">>
      [] c = ":" -> <<"%", "3", "A">>
      [] c = "?" -> <<"%", "3", "F">>
      [] c = "|" -> <<"%", "7", "C">>

RECURSIVE Quote(_, _)
\* urllib.quote(s, safe)
Quote(s, safe) ==
    IF s = <<>> THEN <<>>
    ELSE (IF s[1] \in AlwaysSafe \cup safe THEN <<s[1]>> ELSE PercentCode(s[1]))
         \o Quote(Tail(s), safe)

RECURSIVE QuotePlus(_)
\* urllib.quote_plus(s): a space becomes "+", nothing else is safe
QuotePlus(s) ==
    IF s = <<>> THEN <<>>
    ELSE (IF s[1] = " " THEN <<"+">>
          ELSE IF s[1] \in AlwaysSafe THEN <<s[1]>> ELSE PercentCode(s[1]))
         \o QuotePlus(Tail(s))

RECURSIVE UrlEncode(_)
\* urllib.urlencode(pairs): quote_plus(k) + '=' + quote_plus(v), joined by '&'
UrlEncode(pairs) ==
    IF pairs = <<>> THEN <<>>
    ELSE QuotePlus(pairs[1].name) \o <<"=">> \o QuotePlus(pairs[1].value)
         \o (IF Len(pairs) > 1 THEN <<"&">> ELSE <<>>) \o UrlEncode(Tail(pairs))

RECURSIVE CookieLoop(_)
\* for element in cookies: header += element + '=' + cookies[element] + ';'
CookieLoop(cookies) ==
    IF cookies = <<>> THEN <<>>
    ELSE cookies[1].name \o <<"=">> \o cookies[1].value \o <<";">>
         \o CookieLoop(Tail(cookies))

\* header[:-1]
DropLast(s) == IF s = <<>> THEN <<>> ELSE SubSeq(s, 1, Len(s) - 1)

\* a kodi_header that keeps the trailing semicolon
kodi_header_KeepsSemicolon(sess) ==
    <<"|">> \o COOKIE_EQ \o Quote(CookieLoop(sess.cookies), {"/"})
    \o <<"&">> \o UrlEncode(sess.headers)

\* kodi_header(), lines 21-27
kodi_header(sess) ==
    <<"|">> \o COOKIE_EQ \o Quote(DropLast(CookieLoop(sess.cookies)), {"/"})
    \o <<"&">> \o UrlEncode(sess.headers)

\* media + '?viewKey=' + view_key + '&r=' + resolution + kodi_header(), line 116
StreamUrl(media, view_key, sess) ==
    media \o VIEWKEY_PARAM \o view_key \o R_PARAM \o RESOLUTION \o kodi_header(sess)

(***************************************************************************)
(* Inputs                                                                  *)
(***************************************************************************)
KeyA == <<"a">>
KeyB == <<"b">>
KeyC == <<"c">>
KeyD == <<"d", DOT, "jpg">>
KeyE == <<"e">>
Keys == {KeyA, KeyB, KeyD}
FillKeys == {KeyA, KeyB, KeyC, KeyD, KeyE}

Url(dir, key) == << <<"https:">>, <<>>, <<"tv.gab.com">>, <<dir>>, key >>
Urls == {Url("image", k) : k \in Keys} \cup {Url("thumb", KeyA)}
FillUrls == {Url("image", k) : k \in FillKeys}

\* A Content-Type header value is the sequence of its slash-delimited parts;
\* None stands for a response without the header.
CtPng == << <<"image">>, <<"png">> >>
CtIcon == << <<"image">>, <<"vnd", DOT, "icon">> >>
CtUndefined == << <<"undefined">> >>
CtHtml == << <<"text">>, <<"html">> >>

\* What requests.get(url) does: raise, or return a response
Raised == [raised |-> TRUE, status |-> 0, ctype |-> None]
Response(status, ctype) == [raised |-> FALSE, status |-> status, ctype |-> ctype]
Responses ==
    {Raised, Response(200, None), Response(200, CtPng), Response(200, CtIcon),
     Response(200, CtUndefined), Response(404, CtHtml)}
FillResponses == {Response(200, None), Response(200, CtPng)}

\* Files the directory may hold before the first call
PriorNames == {FileName(KeyA, <<"png">>), FileName(KeyB, FALLBACK_EXT), <<"readme">>}

CacheSizes == (0 - 1) .. MaxCache

(***************************************************************************)
(* The cache directory                                                     *)
(***************************************************************************)
VARIABLES
    files,        \* the cache directory: file name -> modification time
    clock,        \* the time the next write stamps
    cache_size,   \* the setting 'cache_size'
    ncalls,       \* calls made so far
    fetches,      \* thumbnail GETs issued so far
    last,         \* the last call: what it was given, did and returned
    prev,         \* the call before it
    emptyStart,   \* the directory was empty before the first call
    reqKeys,      \* the keys of the calls so far
    plain,        \* every call so far returned, and no two had the same key
    \* one navigation of the add-on (addon.py routes, gab.GabTV)
    pc,           \* where the navigation stands
    intent,       \* the route taken and its arguments
    page,         \* the page the GET returned
    lists,        \* titles, video_urls, art_urls of the scrape loop
    idx,          \* the next element to map
    items,        \* the TitleItems built so far
    resolved,     \* the stream URL retrieve_video_url returned
    host,         \* the hand-offs made to the host, in order
    trace,        \* the HTTP requests and hand-offs of the navigation, in order
    session,      \* the requests session: cookies and headers
    \* two calls of download_fanart running at once
    rp,           \* each call's position and local variables
    partial       \* the files opened for writing and not yet written

cacheGhost == <<ncalls, fetches, last, prev, emptyStart, reqKeys, plain>>
raceVars == <<rp, partial>>
cacheVars == <<files, clock, cache_size, cacheGhost, raceVars>>
navVars == <<pc, intent, page, lists, idx, items, resolved, host, trace, session>>
vars == <<cacheVars, navVars>>

Restrict(f, S) == [x \in S |-> f[x]]

RECURSIVE SortByMtime(_, _)
SortByMtime(f, S) ==
    IF S = {} THEN <<>>
    ELSE LET m == CHOOSE x \in S : \A y \in S : f[x] <= f[y]
         IN <<m>> \o SortByMtime(f, S \ {m})

\* sorted(os.listdir(path), key=mtime)
sorted_ls(f) == SortByMtime(f, DOMAIN f)

\* the names the scan of os.listdir(path) can stop at
Matches(f, key) == {s \in DOMAIN f : SplitextRoot(s) = PREFIX \o key}

\* response.headers['Content-Type'].split('/')[-1], 'apng' on a KeyError
Extension(resp) ==
    IF resp.ctype = None THEN FALLBACK_EXT ELSE resp.ctype[Len(resp.ctype)]

\* open(filename, "wb"); write; close
WriteFile(f, name, now) ==
    [x \in DOMAIN f \cup {name} |-> IF x = name THEN now ELSE f[x]]

\* a slice end that is one short: keeps max_Files + 1 files
DelListOneShort(f, max_Files) ==
    PySlice0(sorted_ls(f), Len(sorted_ls(f)) - max_Files - 1)

\* a deletion list that is empty when max_Files is not positive
DelListNonPositiveEmpty(f, max_Files) ==
    IF max_Files <= 0 THEN <<>>
    ELSE PySlice0(sorted_ls(f), Len(sorted_ls(f)) - max_Files)

\* sorted_ls(path)[0:(len(sorted_ls(path))-max_Files)]
DelList(f, max_Files) == PySlice0(sorted_ls(f), Len(sorted_ls(f)) - max_Files)

\* for dfile in del_list: os.remove(path + '/' + dfile)
Evict(f, max_Files) == Restrict(f, DOMAIN f \ Range(DelList(f, max_Files)))

NoCall == [url |-> None, key |-> None, hit |-> FALSE, fetched |-> FALSE,
           status |-> "none", resp |-> None, ret |-> None, written |-> None,
           count |-> 0, deleted |-> <<>>]

Summary(c) == [url |-> c.url, fetched |-> c.fetched, status |-> c.status,
               ret |-> c.ret, hit |-> c.hit]

\* One call of download_fanart on directory f at time now: the call's record and
\* the directory and clock it leaves
Outcome(call, f, now) == [call |-> call, files |-> f, clock |-> now]

\* a hit that returns before the eviction step
HitNoEvict(f, now, max_Files, url) ==
    {Outcome([url |-> url, key |-> UrlKey(url), hit |-> TRUE,
              fetched |-> FALSE, status |-> "returned", resp |-> None,
              ret |-> s, written |-> None,
              count |-> Cardinality(DOMAIN f), deleted |-> <<>>],
             f, now) : s \in Matches(f, UrlKey(url))}

\* download_fanart(url) when the scan finds a file: lines 149-159, 176-181
HitOutcomes(f, now, max_Files, url) ==
    {Outcome([url |-> url, key |-> UrlKey(url), hit |-> TRUE,
              fetched |-> FALSE, status |-> "returned", resp |-> None,
              ret |-> s, written |-> None,
              count |-> Cardinality(DOMAIN f),
              deleted |-> Restrict(f, Range(DelList(f, max_Files)))],
             Evict(f, max_Files), now) : s \in Matches(f, UrlKey(url))}

\* download_fanart(url) when the scan finds none: requests.get raises (line
\* 162), or returns and the body is written and the directory trimmed (lines
\* 162-181)
MissOutcome(f, now, max_Files, url, resp) ==
    IF resp.raised
    THEN Outcome([url |-> url, key |-> UrlKey(url), hit |-> FALSE,
                  fetched |-> TRUE, status |-> "raised", resp |-> resp,
                  ret |-> None, written |-> None,
                  count |-> Cardinality(DOMAIN f), deleted |-> <<>>],
                 f, now)
    ELSE LET name == FileName(UrlKey(url), Extension(resp))
             wrote == WriteFile(f, name, now)
         IN Outcome([url |-> url, key |-> UrlKey(url), hit |-> FALSE,
                     fetched |-> TRUE, status |-> "returned", resp |-> resp,
                     ret |-> name, written |-> name,
                     count |-> Cardinality(DOMAIN wrote),
                     deleted |-> Restrict(wrote, Range(DelList(wrote, max_Files)))],
                    Evict(wrote, max_Files), now + 1)

\* download_fanart(url), lines 148-181
FanartOutcomes(f, now, max_Files, url, resps) ==
    IF Matches(f, UrlKey(url)) # {}
    THEN HitOutcomes(f, now, max_Files, url)
    ELSE {MissOutcome(f, now, max_Files, url, r) : r \in resps}

Log(o) ==
    /\ files' = o.files
    /\ clock' = o.clock
    /\ last' = o.call
    /\ prev' = Summary(last)
    /\ ncalls' = ncalls + 1
    /\ fetches' = fetches + (IF o.call.fetched THEN 1 ELSE 0)
    /\ reqKeys' = reqKeys \cup {o.call.key}
    /\ plain' = (plain /\ o.call.status = "returned" /\ o.call.key \notin reqKeys)
    /\ UNCHANGED <<cache_size, emptyStart, navVars, raceVars>>

\* a call that hits
Hit(url, lim) ==
    /\ ncalls < lim
    /\ \E o \in HitOutcomes(files, clock, cache_size, url) : Log(o)

\* a call that misses
Miss(url, resp, lim) ==
    /\ ncalls < lim
    /\ Matches(files, UrlKey(url)) = {}
    /\ Log(MissOutcome(files, clock, cache_size, url, resp))

download_fanart(urls, resps, lim) ==
    \E url \in urls :
        \/ Hit(url, lim)
        \/ \E resp \in resps : Miss(url, resp, lim)

\* The directories found before the first call: at most MaxPrior files, any
\* order of their modification times
PriorDirs ==
    {f \in UNION {[S -> 1 .. Cardinality(S)] :
                    S \in {T \in SUBSET PriorNames : Cardinality(T) <= MaxPrior}} :
        \A x, y \in DOMAIN f : x # y => f[x] # f[y]}

\* no navigation under way
NavIdle ==
    /\ pc = "idle"
    /\ intent = "none"
    /\ page = NoPage
    /\ lists = NoLists
    /\ idx = 0
    /\ items = <<>>
    /\ resolved = None
    /\ host = <<>>
    /\ trace = <<>>
    /\ session = [cookies |-> <<>>, headers |-> <<>>]

Procs == {1, 2}
NoProc == [pc |-> "off", url |-> None, ret |-> None, live |-> FALSE,
           names |-> {}, first |-> <<>>, del |-> <<>>, fetched |-> FALSE,
           intact |-> FALSE]

\* no call of the cache made
CacheFresh ==
    /\ rp = [p \in Procs |-> NoProc]
    /\ partial = {}
    /\ ncalls = 0
    /\ fetches = 0
    /\ last = NoCall
    /\ prev = Summary(NoCall)
    /\ reqKeys = {}
    /\ plain = TRUE

Init ==
    /\ NavIdle
    /\ files \in PriorDirs
    /\ clock = Cardinality(DOMAIN files) + 1
    /\ cache_size \in CacheSizes
    /\ emptyStart = (DOMAIN files = {})
    /\ CacheFresh

Next == download_fanart(Urls, Responses, MaxCalls)

Spec == Init /\ [][Next]_vars

\* A run of calls on an empty directory with a positive cache_size
InitFill ==
    /\ NavIdle
    /\ files = <<>>
    /\ clock = 1
    /\ cache_size \in 1 .. MaxCache
    /\ emptyStart = TRUE
    /\ CacheFresh

NextFill == download_fanart(FillUrls, FillResponses, MaxFill)

SpecFill == InitFill /\ [][NextFill]_vars

(***************************************************************************)
(* Pages and scraping (webscraper.py lines 30-140)                         *)
(***************************************************************************)
BASE_URL == << <<"https:">>, <<>>, <<"tv.gab.com">> >>

\* a + b for strings given as their slash-delimited segments
ConcatSegs(a, b) ==
    SubSeq(a, 1, Len(a) - 1) \o <<a[Len(a)] \o b[1]>> \o Tail(b)

\* An element of a listing page: one of two contents, and what it lacks.
\* "no_art" is an element without thumbnail div, img or src attribute,
\* "no_ref" one without data-episode-url, "short_ref" one whose reference has
\* fewer than five segments, "no_title" one without title attribute.
VideoDefects == {"none", "no_art", "no_ref", "short_ref", "no_title"}
\* "no_label" is a category without label div, "no_href" one without link
CategoryDefects == {"none", "no_art", "no_label", "no_href"}

ElemKey(e) == IF e.id = 1 THEN KeyA ELSE KeyB
\* img.get('src')
ElemSrc(e) ==
    IF e.defect = "no_art" THEN None ELSE << <<>>, <<"image">>, ElemKey(e) >>
\* Navigation references, as the sequence of their tokens: "/" and the text
\* between slashes
REF_EXAMPLE == <<"/", "watch", "/", "CHAN42", "/", "view", "/", "V99", "/", "extra">>
REF_CHANNEL == <<"/", "channel", "/", "c2", "/", "view", "/", "v2">>
REF_RELATIVE == <<"watch", "/", "CHAN42", "/", "view", "/", "V99", "/", "extra">>
REF_SHORT == <<"/", "watch", "/", "CHAN42">>
\* div.get('data-episode-url')
ElemRef(e) ==
    CASE e.defect = "no_ref" -> None
      [] e.defect = "short_ref" -> REF_SHORT
      [] OTHER -> IF e.id = 1 THEN REF_EXAMPLE ELSE REF_CHANNEL
\* div.get('title')
ElemTitle(e) ==
    IF e.defect = "no_title" THEN None
    ELSE IF e.id = 1 THEN <<"T1">> ELSE <<"T2">>
\* the label div's contents[0]
ElemLabel(e) ==
    IF e.defect = "no_label" THEN None
    ELSE IF e.id = 1 THEN <<"Horror">> ELSE <<"News">>
\* a.get('href')
ElemHref(e) ==
    IF e.defect = "no_href" THEN None
    ELSE IF e.id = 1 THEN << <<>>, <<"category">>, <<"horror">> >>
         ELSE << <<"https:">>, <<>>, <<"tv.gab.com">>, <<"category">>, <<"news">> >>

SeqsUpTo(S, n) == UNION {[1 .. k -> S] : k \in 0 .. n}

\* What session.get returns for a listing: it raises, or a page of any status
\* with or without the container element
PageRaised == [raised |-> TRUE]
ListingPages(defects) ==
    {[raised |-> FALSE, status |-> st, container |-> c, elems |-> es] :
        st \in {200, 404}, c \in BOOLEAN,
        es \in SeqsUpTo([id : {1, 2}, defect : defects], MaxItems)}

MEDIA_EXAMPLE == <<"h", "t", "t", "p", "s", ":", "/", "/", "c", "d", "n", "/", "v", "i", "d", "e", "o">>
VIEW_KEY_EXAMPLE == <<"a", "b", "c", "1", "2", "3">>
MEDIA == <<"m">>
VIEW_KEY == <<"k">>
\* the detail page: the og:video meta tag and the studio-player div, each
\* absent (NoElement), without its attribute (None) or complete
DetailPages ==
    {[raised |-> FALSE, status |-> st, media |-> m, view_key |-> k] :
        st \in {200, 404},
        m \in {NoElement, None, MEDIA, MEDIA_EXAMPLE},
        k \in {NoElement, None, VIEW_KEY, VIEW_KEY_EXAMPLE}}

\* a scrape loop that takes a missing container for an empty one
ScrapeLoopNoContainer(pg, needs_container) ==
    IF needs_container /\ ~pg.container THEN [ok |-> TRUE, art_urls |-> <<>>,
                                              video_urls |-> <<>>, titles |-> <<>>]
    ELSE IF \E i \in DOMAIN pg.elems : ElemSrc(pg.elems[i]) = None THEN NoLists
    ELSE [ok |-> TRUE,
          art_urls |-> [i \in DOMAIN pg.elems |->
                           ConcatSegs(BASE_URL, ElemSrc(pg.elems[i]))],
          video_urls |-> [i \in DOMAIN pg.elems |-> ElemRef(pg.elems[i])],
          titles |-> [i \in DOMAIN pg.elems |-> ElemTitle(pg.elems[i])]]

\* a scrape loop that stops at the first element without artwork and keeps the
\* elements before it
ScrapeLoopPartial(pg, needs_container) ==
    IF needs_container /\ ~pg.container THEN NoLists
    ELSE LET bad == {i \in DOMAIN pg.elems : ElemSrc(pg.elems[i]) = None}
             n == IF bad = {} THEN Len(pg.elems)
                  ELSE (CHOOSE i \in bad : \A j \in bad : i <= j) - 1
         IN [ok |-> TRUE,
             art_urls |-> [i \in 1 .. n |-> ConcatSegs(BASE_URL, ElemSrc(pg.elems[i]))],
             video_urls |-> [i \in 1 .. n |-> ElemRef(pg.elems[i])],
             titles |-> [i \in 1 .. n |-> ElemTitle(pg.elems[i])]]

\* The loop of scrape_search_results, scrape_explore_menu (needs_container)
\* and scrape_category: the three lists, or NoLists when it raises
ScrapeLoop(pg, needs_container) ==
    IF needs_container /\ ~pg.container THEN NoLists
    ELSE IF \E i \in DOMAIN pg.elems : ElemSrc(pg.elems[i]) = None THEN NoLists
    ELSE [ok |-> TRUE,
          art_urls |-> [i \in DOMAIN pg.elems |->
                           ConcatSegs(BASE_URL, ElemSrc(pg.elems[i]))],
          video_urls |-> [i \in DOMAIN pg.elems |-> ElemRef(pg.elems[i])],
          titles |-> [i \in DOMAIN pg.elems |-> ElemTitle(pg.elems[i])]]

\* url_for('play_video', channel=channel, view=view)
PlayRoute(channel, view) ==
    [route |-> "play_video", channel |-> channel, view |-> view]

TitleItem(label, path, art, plot, is_playable) ==
    [label |-> label, path |-> path,
     art_dict |-> [thumb |-> art, fanart |-> art, icon |-> art],
     info_dict |-> plot, is_playable |-> is_playable]

\* a zip that leaves out the last triple
MinLenDropsLast(a, b, c) ==
    LET m == IF Len(a) < Len(b) THEN Len(a) ELSE Len(b)
        n == IF Len(c) < m THEN Len(c) ELSE m
    IN IF n > 0 THEN n - 1 ELSE 0

\* zip(titles, video_urls, art_urls): as many triples as the shortest list
MinLen(a, b, c) ==
    LET m == IF Len(a) < Len(b) THEN Len(a) ELSE Len(b)
    IN IF Len(c) < m THEN Len(c) ELSE m

Failed(f, now, fetched) ==
    [status |-> "raised", item |-> None, files |-> f, clock |-> now, fetched |-> fetched]

\* One turn of the loop of __map_videos, lines 123-138: the item, or Raise, with
\* the directory the turn leaves
MapVideo(title, video_url, art_url, f, now, max_Files, resps) ==
    IF video_url = None \/ Len(Split(video_url, "/")) < 5
    THEN {Failed(f, now, FALSE)}
    ELSE LET channel == Split(video_url, "/")[3]
             view == Split(video_url, "/")[5]
         IN {IF o.call.status = "raised" THEN Failed(o.files, o.clock, TRUE)
             ELSE IF title = None THEN Failed(o.files, o.clock, o.call.fetched)
             ELSE [status |-> "ok",
                   item |-> TitleItem(title, PlayRoute(channel, view), o.call.ret,
                                      <<"Title: ">> \o title \o <<"\nChannel: ">> \o channel,
                                      TRUE),
                   files |-> o.files, clock |-> o.clock, fetched |-> o.call.fetched] :
             o \in FanartOutcomes(f, now, max_Files, art_url, resps)}

\* One turn of the loop of list_categories, lines 71-85
MapCategory(e, f, now, max_Files, resps) ==
    IF ElemSrc(e) = None
    THEN {Failed(f, now, FALSE)}
    ELSE {IF o.call.status = "raised" THEN Failed(o.files, o.clock, TRUE)
          ELSE IF ElemLabel(e) = None \/ ElemHref(e) = None
          THEN Failed(o.files, o.clock, o.call.fetched)
          ELSE [status |-> "ok",
                item |-> TitleItem(ElemLabel(e),
                                   [route |-> "categories",
                                    category |-> ElemHref(e)[Len(ElemHref(e))]],
                                   o.call.ret, None, FALSE),
                files |-> o.files, clock |-> o.clock, fetched |-> o.call.fetched] :
          o \in FanartOutcomes(f, now, max_Files,
                               ConcatSegs(BASE_URL, ElemSrc(e)), resps)}

\* retrieve_video_url, lines 112-116, on the page fetched
RetrieveVideoUrl(pg, sess) ==
    IF pg.media \in {NoElement, None} \/ pg.view_key \in {NoElement, None}
    THEN Raise
    ELSE StreamUrl(pg.media, pg.view_key, sess)

(***************************************************************************)
(* One navigation (addon.py, gab.GabTV)                                    *)
(***************************************************************************)
ThumbResponses == {Raised, Response(200, CtPng)}

VideoIntents == {"explore", "search", "category"}

\* GabTV.show_main_menu: three fixed items
main_items ==
    << TitleItem(<<"30010">>, [route |-> "categories"], <<"DefaultGenre.png">>, <<"30011">>, FALSE),
       TitleItem(<<"30012">>, [route |-> "explore"], <<"DefaultCountry.png">>, <<"30013">>, FALSE),
       TitleItem(<<"30014">>, [route |-> "search"], <<"DefaultAddonsSearch.png">>, <<"30015">>, FALSE) >>

\* a main menu that fetches a page before it lists its items
RouteMainMenuFetches ==
    /\ pc = "idle"
    /\ pc' = "show"
    /\ intent' = "root"
    /\ items' = main_items
    /\ trace' = Append(trace, "page_get")
    /\ UNCHANGED <<cacheVars, page, lists, idx, resolved, host, session>>

\* addon.main_menu -> GabTV.show_main_menu up to its show_listing call
RouteMainMenu ==
    /\ pc = "idle"
    /\ pc' = "show"
    /\ intent' = "root"
    /\ items' = main_items
    /\ UNCHANGED <<cacheVars, page, lists, idx, resolved, host, trace, session>>

\* addon.categories, explore, play_video: the route reaches its scrape
Route(i) ==
    /\ pc = "idle"
    /\ pc' = "get"
    /\ intent' = i
    /\ UNCHANGED <<cacheVars, page, lists, idx, items, resolved, host, trace, session>>

\* addon.search: the keyboard is confirmed, or it is not and the route returns
RouteSearch(confirmed) ==
    /\ pc = "idle"
    /\ pc' = IF confirmed THEN "get" ELSE "done"
    /\ intent' = "search"
    /\ UNCHANGED <<cacheVars, page, lists, idx, items, resolved, host, trace, session>>

\* the session.get of a scrape raises
GetRaises ==
    /\ pc = "get"
    /\ pc' = "failed"
    /\ page' = PageRaised
    /\ trace' = Append(trace, "page_get")
    /\ UNCHANGED <<cacheVars, intent, lists, idx, items, resolved, host, session>>

\* scrape_explore_menu, scrape_search_results, scrape_category: the GET and the
\* scrape loop
GetListing ==
    /\ pc = "get"
    /\ intent \in VideoIntents
    /\ \E pg \in ListingPages(VideoDefects) :
         LET r == ScrapeLoop(pg, intent # "category")
         IN /\ page' = pg
            /\ pc' = IF r.ok THEN "map" ELSE "failed"
            /\ lists' = r
            /\ idx' = 1
    /\ trace' = Append(trace, "page_get")
    /\ UNCHANGED <<cacheVars, intent, items, resolved, host, session>>

\* list_categories: the GET and the container lookup, lines 65-67
GetIndex ==
    /\ pc = "get"
    /\ intent = "categories"
    /\ \E pg \in ListingPages(CategoryDefects) :
         /\ page' = pg
         /\ pc' = IF pg.container THEN "map" ELSE "failed"
         /\ idx' = 1
    /\ trace' = Append(trace, "page_get")
    /\ UNCHANGED <<cacheVars, intent, lists, items, resolved, host, session>>

\* a retrieve_video_url that returns the empty string where it should raise
GetDetailSwallowsFailure ==
    /\ pc = "get"
    /\ intent = "play"
    /\ \E pg \in DetailPages :
         LET r == RetrieveVideoUrl(pg, session)
         IN /\ page' = pg
            /\ pc' = "resolve"
            /\ resolved' = IF r = Raise THEN <<>> ELSE r
    /\ trace' = Append(trace, "page_get")
    /\ UNCHANGED <<cacheVars, intent, lists, idx, items, host, session>>

\* retrieve_video_url: the GET and the composition
GetDetail ==
    /\ pc = "get"
    /\ intent = "play"
    /\ \E pg \in DetailPages :
         LET r == RetrieveVideoUrl(pg, session)
         IN /\ page' = pg
            /\ pc' = IF r = Raise THEN "failed" ELSE "resolve"
            /\ resolved' = r
    /\ trace' = Append(trace, "page_get")
    /\ UNCHANGED <<cacheVars, intent, lists, idx, items, host, session>>

Turn(o) ==
    /\ files' = o.files
    /\ clock' = o.clock
    /\ trace' = IF o.fetched THEN Append(trace, "thumb_get") ELSE trace
    /\ IF o.status = "raised"
       THEN pc' = "failed" /\ UNCHANGED <<idx, items>>
       ELSE pc' = pc /\ idx' = idx + 1 /\ items' = Append(items, o.item)
    /\ UNCHANGED <<cache_size, cacheGhost, raceVars, intent, page, lists, resolved,
                   host, session>>

\* one turn of the loop of __map_videos
MapVideoTurn ==
    /\ pc = "map"
    /\ intent \in VideoIntents \cup {"map_videos"}
    /\ idx <= MinLen(lists.titles, lists.video_urls, lists.art_urls)
    /\ \E o \in MapVideo(lists.titles[idx], lists.video_urls[idx], lists.art_urls[idx],
                         files, clock, cache_size, ThumbResponses) : Turn(o)

\* one turn of the loop of list_categories
MapCategoryTurn ==
    /\ pc = "map"
    /\ intent = "categories"
    /\ idx <= Len(page.elems)
    /\ \E o \in MapCategory(page.elems[idx], files, clock, cache_size, ThumbResponses) :
         Turn(o)

\* the loop is over: the scrape returns its items to GabTV
ReturnItems ==
    /\ pc = "map"
    /\ idx > (IF intent = "categories" THEN Len(page.elems)
              ELSE MinLen(lists.titles, lists.video_urls, lists.art_urls))
    /\ pc' = "show"
    /\ UNCHANGED <<cacheVars, intent, page, lists, idx, items, resolved, host, trace, session>>

\* a hand-off that shows the listing twice
ShowListingTwice ==
    /\ pc = "show"
    /\ pc' = "done"
    /\ host' = host \o <<[api |-> "show_listing", items |-> items],
                         [api |-> "show_listing", items |-> items]>>
    /\ trace' = trace \o <<"show_listing", "show_listing">>
    /\ UNCHANGED <<cacheVars, intent, page, lists, idx, items, resolved, session>>

\* show_listing(items, ...), gab.py lines 35, 41, 46, 52, 55
ShowListing ==
    /\ pc = "show"
    /\ pc' = "done"
    /\ host' = Append(host, [api |-> "show_listing", items |-> items])
    /\ trace' = Append(trace, "show_listing")
    /\ UNCHANGED <<cacheVars, intent, page, lists, idx, items, resolved, session>>

\* xbmcplugin.setResolvedUrl(plugin.handle, bool(url), listitem), gab.py line 61
SetResolvedUrl ==
    /\ pc = "resolve"
    /\ pc' = "done"
    /\ host' = Append(host, [api |-> "setResolvedUrl", succeeded |-> resolved # <<>>,
                             path |-> resolved])
    /\ trace' = Append(trace, "setResolvedUrl")
    /\ UNCHANGED <<cacheVars, intent, page, lists, idx, items, resolved, session>>

NavPriorDirs == {<<>>, FileName(KeyA, <<"png">>) :> 1}

InitNav ==
    /\ files \in NavPriorDirs
    /\ clock = Cardinality(DOMAIN files) + 1
    /\ cache_size \in 1 .. MaxCache
    /\ emptyStart = (DOMAIN files = {})
    /\ CacheFresh
    /\ pc = "idle"
    /\ intent = "none"
    /\ page = NoPage
    /\ lists = NoLists
    /\ idx = 0
    /\ items = <<>>
    /\ resolved = None
    /\ host = <<>>
    /\ trace = <<>>
    /\ session = [cookies |-> <<[name |-> <<"a">>, value |-> <<"1">>]>>,
                  headers |-> <<>>]

NextNav ==
    \/ RouteMainMenu
    \/ \E i \in {"categories", "category", "explore", "play"} : Route(i)
    \/ \E c \in BOOLEAN : RouteSearch(c)
    \/ GetRaises
    \/ GetListing
    \/ GetIndex
    \/ GetDetail
    \/ MapVideoTurn
    \/ MapCategoryTurn
    \/ ReturnItems
    \/ ShowListing
    \/ SetResolvedUrl

SpecNav == InitNav /\ [][NextNav]_vars

\* __map_videos(titles, video_urls, art_urls) called with any three lists of
\* titles, well-formed references and artwork URLs, equal in length or not
MapTitles == {<<"T1">>, <<"T2">>}
MapRefs == {REF_EXAMPLE, REF_CHANNEL, REF_RELATIVE}
MapArtUrls == {Url("image", KeyA), Url("image", KeyB), Url("image", KeyC)}

InitMap ==
    /\ files \in NavPriorDirs
    /\ clock = Cardinality(DOMAIN files) + 1
    /\ cache_size \in 1 .. MaxCache
    /\ emptyStart = (DOMAIN files = {})
    /\ CacheFresh
    /\ pc = "map"
    /\ intent = "map_videos"
    /\ page = NoPage
    /\ \E t \in SeqsUpTo(MapTitles, MaxItems), v \in SeqsUpTo(MapRefs, MaxItems),
          a \in SeqsUpTo(MapArtUrls, MaxItems) :
          lists = [ok |-> TRUE, art_urls |-> a, video_urls |-> v, titles |-> t]
    /\ idx = 1
    /\ items = <<>>
    /\ resolved = None
    /\ host = <<>>
    /\ trace = <<>>
    /\ session = [cookies |-> <<>>, headers |-> <<>>]

NextMap ==
    \/ MapVideoTurn
    \/ ReturnItems

SpecMap == InitMap /\ [][NextMap]_vars

(***************************************************************************)
(* Two calls of download_fanart at once on one directory, no lock held:    *)
(* each statement that reads or changes the directory is one step.         *)
(***************************************************************************)
RaceUrls == {Url("image", KeyA), Url("image", KeyB), Url("image", KeyD)}
RaceResponses == {Response(200, CtPng), Response(200, None)}

Step(p, r) ==
    /\ rp' = [rp EXCEPT ![p] = r]
    /\ UNCHANGED <<cache_size, cacheGhost, navVars>>

\* lines 155-159: the scan of os.listdir(path)
Scan(p) ==
    /\ rp[p].pc = "scan"
    /\ \/ \E s \in Matches(files, UrlKey(rp[p].url)) :
            Step(p, [rp[p] EXCEPT !.pc = "list1", !.ret = s])
       \/ /\ Matches(files, UrlKey(rp[p].url)) = {}
          /\ Step(p, [rp[p] EXCEPT !.pc = "get"])
    /\ UNCHANGED <<files, clock, partial>>

\* lines 162-169: requests.get(url) returns and the file name is built
Get(p) ==
    /\ rp[p].pc = "get"
    /\ \E resp \in RaceResponses :
         Step(p, [rp[p] EXCEPT !.pc = "open", !.fetched = TRUE,
                               !.ret = FileName(UrlKey(rp[p].url), Extension(resp))])
    /\ UNCHANGED <<files, clock, partial>>

\* line 171: open(filename, "wb") creates the file or truncates it
Open(p) ==
    /\ rp[p].pc = "open"
    /\ files' = WriteFile(files, rp[p].ret, clock)
    /\ clock' = clock + 1
    /\ partial' = partial \cup {rp[p].ret}
    /\ Step(p, [rp[p] EXCEPT !.pc = "write", !.live = TRUE])

\* lines 172-173: write and close; a file unlinked meanwhile stays unlinked
Write(p) ==
    /\ rp[p].pc = "write"
    /\ IF rp[p].live
       THEN /\ files' = WriteFile(files, rp[p].ret, clock)
            /\ clock' = clock + 1
            /\ partial' = partial \ {rp[p].ret}
       ELSE UNCHANGED <<files, clock, partial>>
    /\ Step(p, [rp[p] EXCEPT !.pc = "list1", !.live = FALSE])

\* line 177, sorted_ls(path): os.listdir
List1(p) ==
    /\ rp[p].pc = "list1"
    /\ Step(p, [rp[p] EXCEPT !.pc = "stat1", !.names = DOMAIN files])
    /\ UNCHANGED <<files, clock, partial>>

\* line 177, sorted_ls(path): os.stat of each name listed, which raises for a
\* name removed since
Stat1(p) ==
    /\ rp[p].pc = "stat1"
    /\ IF rp[p].names \subseteq DOMAIN files
       THEN Step(p, [rp[p] EXCEPT !.pc = "list2",
                                  !.first = SortByMtime(files, rp[p].names)])
       ELSE Step(p, [rp[p] EXCEPT !.pc = "failed"])
    /\ UNCHANGED <<files, clock, partial>>

\* line 177, len(sorted_ls(path)): os.listdir
List2(p) ==
    /\ rp[p].pc = "list2"
    /\ Step(p, [rp[p] EXCEPT !.pc = "stat2", !.names = DOMAIN files])
    /\ UNCHANGED <<files, clock, partial>>

\* line 177, len(sorted_ls(path)): os.stat of each name, then the slice
Stat2(p) ==
    /\ rp[p].pc = "stat2"
    /\ IF rp[p].names \subseteq DOMAIN files
       THEN Step(p, [rp[p] EXCEPT
                       !.pc = "remove",
                       !.del = PySlice0(rp[p].first,
                                        Cardinality(rp[p].names) - cache_size)])
       ELSE Step(p, [rp[p] EXCEPT !.pc = "failed"])
    /\ UNCHANGED <<files, clock, partial>>

\* lines 178-179: os.remove of the next name, which raises for a name removed
\* since
Remove(p) ==
    /\ rp[p].pc = "remove"
    /\ rp[p].del # <<>>
    /\ LET name == Head(rp[p].del)
       IN IF name \in DOMAIN files
          THEN /\ files' = Restrict(files, DOMAIN files \ {name})
               /\ partial' = partial \ {name}
               /\ rp' = [q \in Procs |->
                           IF q = p THEN [rp[p] EXCEPT !.del = Tail(rp[p].del)]
                           ELSE IF rp[q].ret = name
                                THEN [rp[q] EXCEPT !.live = FALSE]
                                ELSE rp[q]]
          ELSE /\ rp' = [rp EXCEPT ![p] = [rp[p] EXCEPT !.pc = "failed"]]
               /\ UNCHANGED <<files, partial>>
    /\ UNCHANGED <<clock, cache_size, cacheGhost, navVars>>

\* line 181: return filename
Return(p) ==
    /\ rp[p].pc = "remove"
    /\ rp[p].del = <<>>
    /\ Step(p, [rp[p] EXCEPT
                  !.pc = "done",
                  !.intact = (rp[p].ret \in DOMAIN files)])
    /\ UNCHANGED <<files, clock, partial>>

\* A directory that an earlier call with the same cache_size left: empty, or
\* one file
InitRace ==
    /\ files \in NavPriorDirs
    /\ clock = Cardinality(DOMAIN files) + 1
    /\ cache_size \in 1 .. 2
    /\ emptyStart = (DOMAIN files = {})
    /\ ncalls = 0
    /\ fetches = 0
    /\ last = NoCall
    /\ prev = Summary(NoCall)
    /\ reqKeys = {}
    /\ plain = TRUE
    /\ NavIdle
    /\ partial = {}
    /\ rp \in [Procs -> {[NoProc EXCEPT !.pc = "scan", !.url = u] : u \in RaceUrls}]

NextRace ==
    \E p \in Procs :
        \/ Scan(p)
        \/ Get(p)
        \/ Open(p)
        \/ Write(p)
        \/ List1(p)
        \/ Stat1(p)
        \/ List2(p)
        \/ Stat2(p)
        \/ Remove(p)
        \/ Return(p)

SpecRace == InitRace /\ [][NextRace]_vars

\* C6: when two calls run at once, the worst outcome is a duplicate download:
\* neither call fails, the path a call returns names a file that is in the
\* directory when the call returns, and once both calls are over no file is
\* left half written.
C6_RaceIsHarmless ==
    /\ \A p \in Procs :
          /\ rp[p].pc # "failed"
          /\ rp[p].pc = "done" => rp[p].intact
    /\ (\A p \in Procs : rp[p].pc = "done") => partial = {}


(***************************************************************************)
(* The thumbnail cache: claims                                             *)
(***************************************************************************)
Mtimes(f) == {f[x] : x \in DOMAIN f}
Wrote == last.status = "returned" /\ ~last.hit

\* C1: from an empty directory, after N > cache_size >= 1 calls with pairwise
\* distinct keys, the directory holds exactly cache_size files, the cache_size
\* most recently written ones.
C1_CacheBoundAfterFill ==
    (emptyStart /\ plain /\ cache_size >= 1 /\ ncalls > cache_size) =>
        /\ Cardinality(DOMAIN files) = cache_size
        /\ Mtimes(files) = (clock - cache_size) .. (clock - 1)

\* C2: for cache_size >= 0, after a call that wrote a file the directory holds
\* at most cache_size files, and every file the call deleted is older than
\* every file it kept.
C2_AtMostCacheSizeOldestFirst ==
    (Wrote /\ cache_size >= 0) =>
        /\ Cardinality(DOMAIN files) <= cache_size
        /\ \A d \in DOMAIN last.deleted : \A k \in DOMAIN files :
               last.deleted[d] < files[k]

C2_Witness ==
    /\ Wrote
    /\ cache_size >= 1
    /\ last.deleted # <<>>
    /\ files # <<>>

\* C3: the eviction step after a write, with count files present, deletes
\* exactly the count - cache_size oldest files when count > cache_size >= 0
\* and no file when count <= cache_size.
C3_DeletesExcessOnly ==
    (Wrote /\ cache_size >= 0) =>
        IF last.count > cache_size
        THEN /\ Cardinality(DOMAIN last.deleted) = last.count - cache_size
             /\ \A d \in DOMAIN last.deleted : \A k \in DOMAIN files :
                    last.deleted[d] < files[k]
        ELSE last.deleted = <<>>

\* C4: the second of two successive calls with the same URL, the first of which
\* fetched and wrote, is a cache hit: it makes no fetch and returns the path
\* the first returned.  Stated for cache_size >= 1; with cache_size = 0 the
\* first call deletes the file it wrote and the second call fetches again.
C4_SecondCallIsHit ==
    (/\ ncalls >= 2
     /\ cache_size >= 1
     /\ prev.url = last.url
     /\ prev.status = "returned"
     /\ ~prev.hit) =>
        /\ last.hit
        /\ ~last.fetched
        /\ last.ret = prev.ret

\* The eviction step deletes something from a directory of count files
Trims(count, max_Files) ==
    \/ count > max_Files /\ count > 0
    \/ count < max_Files /\ max_Files < 2 * count

HitStep == ncalls' = ncalls + 1 /\ last'.hit

\* C5 as stated: a cache hit leaves the directory unchanged, whatever the
\* directory and cache_size: no fetch, no write, no delete.
C5_HitChangesNothing ==
    [][HitStep => (files' = files /\ fetches' = fetches /\ clock' = clock)]_vars

\* C5, amended: a cache hit makes no fetch and writes no file, and it runs the
\* eviction step: it deletes files exactly when the directory holds more than
\* cache_size files, or fewer than cache_size and more than half of it.
C5_HitOnlyEvicts ==
    [][HitStep =>
         /\ fetches' = fetches
         /\ clock' = clock
         /\ DOMAIN files' \subseteq DOMAIN files
         /\ \A x \in DOMAIN files' : files'[x] = files[x]
         /\ (files' # files <=> Trims(Cardinality(DOMAIN files), cache_size))]_vars

C5_Witness ==
    /\ last.hit
    /\ last.deleted # <<>>
    /\ files # <<>>

\* C9: when the thumbnail GET fails (it raises, or the response is not 2xx) the
\* call fails and the directory is unchanged: no file is written.  Stated for
\* cache_size >= 1, where a written file is seen to stay.
C9_FailedFetchWritesNothing ==
    (cache_size >= 1 /\ last.fetched /\ (last.resp.raised \/ last.resp.status \notin 200 .. 299)) =>
        /\ last.status = "raised"
        /\ last.written = None
        /\ last.deleted = <<>>

\* The play route alone, for any session and detail page
CookiePairs ==
    {[name |-> <<"a">>, value |-> <<"1">>],
     [name |-> <<"b">>, value |-> <<"1", "=", "2">>],
     [name |-> <<"c">>, value |-> <<"/", " ">>]}
HeaderPairs ==
    {[name |-> <<"k">>, value |-> <<"a", " ", "b">>],
     [name |-> <<"h", "-", "1">>, value |-> <<"/", ";">>]}

DistinctNames(ps) == \A i, j \in DOMAIN ps : i # j => ps[i].name # ps[j].name

Sessions ==
    {[cookies |-> cs, headers |-> hs] :
        cs \in {c \in SeqsUpTo(CookiePairs, MaxCookies) : DistinctNames(c)},
        hs \in {h \in SeqsUpTo(HeaderPairs, MaxHeaders) : DistinctNames(h)}}

InitUrl ==
    /\ files = <<>>
    /\ clock = 1
    /\ cache_size = 1
    /\ emptyStart = TRUE
    /\ CacheFresh
    /\ pc = "idle"
    /\ intent = "none"
    /\ page = NoPage
    /\ lists = NoLists
    /\ idx = 0
    /\ items = <<>>
    /\ resolved = None
    /\ host = <<>>
    /\ trace = <<>>
    /\ session \in Sessions

NextUrl ==
    \/ Route("play")
    \/ GetRaises
    \/ GetDetail
    \/ SetResolvedUrl

SpecUrl == InitUrl /\ [][NextUrl]_vars

(***************************************************************************)
(* Scraping and the stream URL: claims                                     *)
(***************************************************************************)
PageGets == Cardinality({i \in DOMAIN trace : trace[i] = "page_get"})
Fetched == page # NoPage /\ ~page.raised
ListingIntents == VideoIntents \cup {"categories"}

\* C7 as stated: in each of the four listing scrapes a fetched page without the
\* container element makes the operation raise; none returns a list.
C7_NoContainerRaises ==
    (intent \in ListingIntents /\ Fetched /\ ~page.container) =>
        pc \notin {"show", "done"}

\* C7, amended: scrape_explore_menu, scrape_search_results and list_categories
\* raise on a page without the container element; scrape_category looks up no
\* container and returns the items of the elements it finds, the empty list
\* when there are none, which is handed to the host.
C7_ThreeRaiseCategoryReturns ==
    /\ (intent \in {"explore", "search", "categories"} /\ Fetched /\ ~page.container)
          => (pc = "failed" /\ host = <<>>)
    /\ (intent = "category" /\ Fetched /\ ~page.container /\ page.elems = <<>>)
          => /\ pc \in {"map", "show", "done"}
             /\ items = <<>>
             /\ pc = "done" => host = <<[api |-> "show_listing", items |-> <<>>]>>

C7_Witness ==
    /\ intent = "explore"
    /\ Fetched
    /\ ~page.container
    /\ page.elems # <<>>
    /\ pc = "failed"

\* the elements of the fetched listing page that lack a field
Defective == {i \in DOMAIN page.elems : page.elems[i].defect # "none"}

\* C8: every scrape issues its page GET exactly once, and when the GET raises
\* or a field of any one element is missing (or its reference has fewer than
\* five segments) the operation fails as a whole: the loop never gets past the
\* element, no list is returned and nothing is handed to the host.
C8_OneGetAllOrNothing ==
    /\ PageGets = (IF page = NoPage THEN 0 ELSE 1)
    /\ (page # NoPage /\ page.raised) => (pc = "failed" /\ host = <<>>)
    /\ (intent \in ListingIntents /\ Fetched /\ Defective # {}) =>
          /\ pc \in {"map", "failed"}
          /\ host = <<>>
          /\ pc = "map" => \A i \in Defective : idx <= i
    /\ (intent = "play" /\ Fetched
          /\ (page.media \in {NoElement, None} \/ page.view_key \in {NoElement, None})) =>
          (pc = "failed" /\ host = <<>>)

C8_Witness ==
    /\ intent \in VideoIntents
    /\ Fetched
    /\ Len(page.elems) = 2
    /\ page.elems[1].defect = "none"
    /\ page.elems[2].defect = "short_ref"
    /\ pc = "failed"
    /\ Len(items) = 1
    /\ host = <<>>

RECURSIVE JoinCookies(_)
\* the "name=value" pairs joined by ";"
JoinCookies(cookies) ==
    IF cookies = <<>> THEN <<>>
    ELSE IF Len(cookies) = 1 THEN cookies[1].name \o <<"=">> \o cookies[1].value
    ELSE cookies[1].name \o <<"=">> \o cookies[1].value \o <<";">>
         \o JoinCookies(Tail(cookies))

EXAMPLE_URL ==
    <<"h", "t", "t", "p", "s", ":", "/", "/", "c", "d", "n", "/", "v", "i",
      "d", "e", "o", "?", "v", "i", "e", "w", "K", "e", "y", "=", "a",
      "b", "c", "1", "2", "3", "&", "r", "=", "1", "0", "8", "0", "p",
      "|", "C", "o", "o", "k", "i", "e", "=", "a", "%", "3", "D", "1",
      "&">>

\* C10: the stream URL is media_url + "?viewKey=" + view_key + "&r=" +
\* resolution + "|Cookie=" + the quoted "name=value" pairs joined by ";" + "&" +
\* the url-encoded session headers; for media "https://cdn/video", view key
\* "abc123", one cookie a=1 and no headers it is
\* "https://cdn/video?viewKey=abc123&r=1080p|Cookie=a%3D1&".
C10_StreamUrlComposition ==
    (intent = "play" /\ pc \in {"resolve", "done"}) =>
        /\ resolved = page.media \o VIEWKEY_PARAM \o page.view_key \o R_PARAM
                      \o RESOLUTION \o <<"|">> \o COOKIE_EQ
                      \o Quote(JoinCookies(session.cookies), {"/"})
                      \o <<"&">> \o UrlEncode(session.headers)
        /\ (/\ page.media = MEDIA_EXAMPLE
            /\ page.view_key = VIEW_KEY_EXAMPLE
            /\ session.cookies = <<[name |-> <<"a">>, value |-> <<"1">>]>>
            /\ session.headers = <<>>) => resolved = EXAMPLE_URL

C10_Witness ==
    /\ intent = "play"
    /\ pc = "done"
    /\ resolved = EXAMPLE_URL
    /\ host = <<[api |-> "setResolvedUrl", succeeded |-> TRUE, path |-> EXAMPLE_URL]>>

(***************************************************************************)
(* __map_videos: claims                                                    *)
(***************************************************************************)
Returned == intent = "map_videos" /\ pc = "show"
InputLens == {Len(lists.titles), Len(lists.video_urls), Len(lists.art_urls)}

\* C11: when __map_videos returns, it has built as many items as the shortest
\* of its three lists has entries (all of them when the lists are equally long),
\* the i-th item from the i-th title, reference and artwork URL, each playable.
C11_MapVideosZips ==
    Returned =>
        /\ Len(items) \in InputLens
        /\ \A n \in InputLens : Len(items) <= n
        /\ \A i \in DOMAIN items :
              /\ items[i].label = lists.titles[i]
              /\ items[i].path.channel = Split(lists.video_urls[i], "/")[3]
              /\ SplitextRoot(items[i].art_dict.thumb) = PREFIX \o UrlKey(lists.art_urls[i])
              /\ items[i].is_playable = TRUE

C11_Witness ==
    /\ Returned
    /\ Len(lists.titles) = 2
    /\ Len(lists.video_urls) = 1
    /\ Len(lists.art_urls) = 2
    /\ Len(items) = 1
    /\ items[1].label = lists.titles[1]

\* C12: for a reference of at least five slash-delimited segments the channel
\* is segment 2 and the view segment 4, counted from 0 with the leading empty
\* segment: "/watch/CHAN42/view/V99/extra" gives channel "CHAN42" and view
\* "V99"; the item's path is the play route of that channel and view.
C12_ChannelViewSegments ==
    (intent = "map_videos") =>
        \A i \in DOMAIN items :
            LET ref == lists.video_urls[i]
                path == items[i].path
            IN /\ path.route = "play_video"
               /\ ref = REF_EXAMPLE => (path.channel = <<"CHAN42">> /\ path.view = <<"V99">>)
               /\ ref = REF_CHANNEL => (path.channel = <<"c2">> /\ path.view = <<"v2">>)
               /\ ref = REF_RELATIVE => (path.channel = <<"view">> /\ path.view = <<"extra">>)

C12_Witness ==
    /\ Returned
    /\ Len(items) = 2
    /\ lists.video_urls[1] = REF_EXAMPLE
    /\ items[1].path = PlayRoute(<<"CHAN42">>, <<"V99">>)
    /\ lists.video_urls[2] = REF_RELATIVE

(***************************************************************************)
(* The order of fetches and hand-offs: claims                              *)
(***************************************************************************)
ThumbGets == Cardinality({i \in DOMAIN trace : trace[i] = "thumb_get"})
HandOffs == {i \in DOMAIN trace : trace[i] \in {"show_listing", "setResolvedUrl"}}
ScrapingIntents == {"categories", "category", "explore", "search", "play"}
\* the search route returned at the keyboard: GabTV was never called
Cancelled == intent = "search" /\ pc = "done" /\ trace = <<>>

\* C13 as stated: every navigation, the root menu included, has made exactly
\* one page fetch by the time it hands its result to the host.
C13_OnePageGetPerNavigation ==
    (pc = "done" /\ host # <<>>) => PageGets = 1

\* C13, amended: the root menu (and a search cancelled at the keyboard) makes
\* no HTTP request at all; every other navigation makes exactly one page
\* fetch, the first request of the navigation; the thumbnail fetches come after
\* it and before the hand-off, at most one per listing item, and play makes
\* none.
C13_PageGetFirst ==
    /\ (intent = "root" \/ Cancelled) => (PageGets = 0 /\ ThumbGets = 0)
    /\ (intent \in ScrapingIntents /\ pc \notin {"get"} /\ ~Cancelled) =>
          (PageGets = 1 /\ trace[1] = "page_get")
    /\ pc = "get" => trace = <<>>
    /\ \A i \in DOMAIN trace : trace[i] = "thumb_get" =>
          /\ i > 1
          /\ \A j \in HandOffs : i < j
    /\ intent \in ListingIntents /\ Fetched => ThumbGets <= Len(page.elems)
    /\ ThumbGets <= idx
    /\ intent = "play" => ThumbGets = 0

C13_Witness ==
    /\ intent = "explore"
    /\ pc = "done"
    /\ trace = <<"page_get", "thumb_get", "thumb_get", "show_listing">>

C15_NonPositiveNeverDeletes ==
    (cache_size <= 0 /\ Wrote) =>
        /\ last.deleted = <<>>
        /\ last.written \in DOMAIN files

\* C15, amended: with cache_size 0 or negative the slice end is at least the
\* number of files, so the deletion list is the whole directory: every call
\* that returns, a write or a hit, leaves the directory empty, the file just
\* written and the file whose path it returns included.
C15_NonPositiveEmptiesDirectory ==
    (cache_size <= 0 /\ ncalls >= 1 /\ last.status = "returned") =>
        /\ files = <<>>
        /\ Cardinality(DOMAIN last.deleted) = last.count
        /\ last.ret \in DOMAIN last.deleted

C15_Witness ==
    /\ cache_size < 0
    /\ Wrote
    /\ last.count = 2
    /\ files = <<>>

\* the extension the claim gives a response: the fallback when the header is
\* absent or has no type/subtype form, else the part after the last "/"
ClaimedExtension(resp) ==
    IF resp.ctype = None \/ Len(resp.ctype) < 2 THEN FALLBACK_EXT
    ELSE resp.ctype[Len(resp.ctype)]

\* C16: a miss whose GET returned never fails on the content-type header; the
\* file written is prefix + key + "." + extension, the extension being the
\* fallback when the header is absent or malformed and the subtype after the
\* last "/" otherwise.
C16_ExtensionOrFallback ==
    (last.fetched /\ ~last.resp.raised) =>
        /\ last.status = "returned"
        /\ last.written = PREFIX \o last.key \o <<DOT>> \o ClaimedExtension(last.resp)
        /\ last.ret = last.written

\* C17: for cache_size >= 1 and any prior directory, the path a call returns
\* names a file that is in the directory when the call returns.
C17_ReturnedPathExists ==
    (cache_size >= 1 /\ last.status = "returned") => last.ret \in DOMAIN files

\* C18: from an empty directory, when __map_videos returns a listing of k
\* items with pairwise distinct artwork keys and k <= cache_size, the thumb,
\* fanart and icon path of every item names a file in the directory.
C18_ListingThumbnailsExist ==
    (/\ Returned
     /\ emptyStart
     /\ Len(items) <= cache_size
     /\ \A i, j \in DOMAIN items :
           i # j => UrlKey(lists.art_urls[i]) # UrlKey(lists.art_urls[j])) =>
        \A i \in DOMAIN items :
            /\ items[i].art_dict.thumb \in DOMAIN files
            /\ items[i].art_dict.fanart \in DOMAIN files
            /\ items[i].art_dict.icon \in DOMAIN files

\* C19: in play_video setResolvedUrl is called at most once, only after
\* retrieve_video_url has returned, with the URL it returned and with success
\* flag true; it is called exactly once when retrieve_video_url returns and
\* never when it raises.
C19_ResolvedOnceAfterRetrieve ==
    (intent = "play") =>
        /\ Len(host) <= 1
        /\ \A i \in DOMAIN host :
              /\ host[i].api = "setResolvedUrl"
              /\ host[i].succeeded = TRUE
              /\ host[i].path = resolved
              /\ resolved = StreamUrl(page.media, page.view_key, session)
              /\ resolved # <<>>
              /\ trace = <<"page_get", "setResolvedUrl">>
        /\ pc = "done" => Len(host) = 1
        /\ pc = "failed" => (host = <<>> /\ "setResolvedUrl" \notin Range(trace))
        /\ pc \in {"get", "resolve"} => host = <<>>

C19_Witness ==
    /\ intent = "play"
    /\ pc = "done"
    /\ page.media = MEDIA
    /\ Len(session.cookies) = 2
    /\ trace = <<"page_get", "setResolvedUrl">>
    /\ host[1].succeeded = TRUE

\* C20: when a call wrote a file that is still in the directory, the next call,
\* for another URL with the same final segment, makes no fetch and returns
\* that file's path.
C20_KeyedByFinalSegment ==
    [][(/\ ncalls' = ncalls + 1
        /\ Wrote
        /\ last.written \in DOMAIN files
        /\ last'.url # last.url
        /\ UrlKey(last'.url) = UrlKey(last.url)) =>
          (/\ last'.hit
           /\ ~last'.fetched
           /\ fetches' = fetches
           /\ last'.ret = last.ret)]_vars

====
